---- MODULE Spec2Model ----
(***************************************************************************)
(* Model of the command execution orchestrator of the browser automation   *)
(* service: the task registry and queue (service/task_queue.py) and the    *)
(* dispatch loop and task execution units (service/api_server.py).         *)
(*                                                                         *)
(* The service runs on one asyncio event loop, so every piece of code      *)
(* between two suspension points is one atomic action.                     *)
(***************************************************************************)
EXTENDS Integers, Sequences, FiniteSets, TLC

\* ------------------------------------------------------------------ bounds

\* Number of tasks created in a run (ids are 1..MaxTasks).
MaxTasks == 4

\* Number of tasks created on top of MaxTasks in a run of the dispatcher under
\* load (so that more than one id waits while the ceiling is met).
MaxExtra == 1

\* Number of cancel requests (DELETE /api/tasks/{id}) made in a run.
MaxCancels == 1

\* The last reading of the clock (readings are 1..MaxClock).
MaxClock == 2

\* Number of tasks (the first ones created) whose execution is followed one
\* progress report at a time; the others report in one go when they end.
MaxStepwise == 1

\* Number of WebSocket connections opened in a run (handles are 1..MaxConns).
MaxConns == 3

\* Number of publish calls made from outside the task handlers in a run.
MaxCallers == 2

\* Number of task ids (the first ones) that connections subscribe to and that
\* callers publish for.
MaxWatched == 2

\* Number of tasks created in a run of the service with subscribers.
MaxObserved == 1

\* Number of connections that subscribe to a task in such a run.
MaxSubscribers == 2

\* ------------------------------------------------------- program constants

\* TaskQueue.__init__: self.max_concurrent_tasks = 3
max_concurrent_tasks == 3

\* TaskStatus
PENDING == "pending"
RUNNING == "running"
COMPLETED == "completed"
FAILED == "failed"
CANCELLED == "cancelled"

TaskStatus == {PENDING, RUNNING, COMPLETED, FAILED, CANCELLED}

\* The statuses update_task_status stamps completed_at for.
TerminalStatuses == {COMPLETED, FAILED, CANCELLED}

\* Optional[...] fields: None is the empty tuple, a value v is <<v>>.
None == <<>>
Some(v) == <<v>>

\* Task ids: uuid4 values, modelled by the order of creation.
TaskIds == 1..(MaxTasks + MaxExtra)

\* What the browser agent hands back on success (str(result)).
AgentResults == {"page"}

\* Descriptions str(e) of the exceptions the execution can meet.
Faults == {"boom"}

VARIABLES
    tasks,          \* TaskQueue.tasks: id -> Task record
    scheduled,      \* the pending_queue.put(id) coroutines create_task scheduled, not yet run
    pending_queue,  \* TaskQueue.pending_queue (FIFO of ids)
    running_tasks,  \* keys of TaskQueue.running_tasks
    exec,           \* id -> state of the asyncio task that runs execute_task(id)
    loop,           \* where task_processor is: at "get" or in its "sleep"
    now,            \* datetime.utcnow()
    cancels,        \* number of cancel requests made so far
    launched,       \* history: id -> number of asyncio.create_task(execute_task(id)) calls
    requeued,       \* history: the ids task_processor has put back at the tail
    returned,       \* history: id -> what execute_command returned to execute_task
    active_connections, \* WebSocketManager.active_connections
    task_subscribers,   \* WebSocketManager.task_subscribers: task id -> set of connections
    ws,             \* connection -> state of the WebSocket and of its websocket_endpoint
    pubs,           \* publisher -> the send_to_... call it is suspended in, or has ended
    inbox           \* history: connection -> the messages sent to it, in order

\* The broadcaster and its connections.
bvars == <<active_connections, task_subscribers, ws, pubs, inbox>>

\* The task registry, the queue and the dispatcher.
tvars == <<tasks, scheduled, pending_queue, running_tasks, exec, loop, now,
           cancels, launched, requeued, returned>>

vars == <<tasks, scheduled, pending_queue, running_tasks, exec, loop, now,
          cancels, launched, requeued, returned, bvars>>

\* ------------------------------------------------------------ task_queue.py

\* Task(...) built with started_at=utcnow() as well.
NewTask_Stamped(id, clock) ==
    [id |-> id, status |-> PENDING, created_at |-> clock,
     started_at |-> Some(clock), completed_at |-> None,
     result |-> None, error |-> None, progress |-> <<>>]

\* Task(id, command, status=PENDING, created_at=utcnow()) with the dataclass defaults.
NewTask(id, clock) ==
    [id |-> id, status |-> PENDING, created_at |-> clock,
     started_at |-> None, completed_at |-> None,
     result |-> None, error |-> None, progress |-> <<>>]

\* TaskQueue.get_task: the record, or None.
get_task(tks, id) == IF id \in DOMAIN tks THEN Some(tks[id]) ELSE None

\* The timestamps part of update_task_status.
StampTimes(task, status, clock) ==
    IF status = RUNNING /\ task.started_at = None
    THEN [task EXCEPT !.started_at = Some(clock)]
    ELSE IF status \in TerminalStatuses
         THEN [task EXCEPT !.completed_at = Some(clock)]
         ELSE task

\* The optional fields part of update_task_status; kw is the **kwargs dict.
SetOptional(task, kw) ==
    LET t1 == IF "result" \in DOMAIN kw THEN [task EXCEPT !.result = Some(kw.result)] ELSE task
    IN  IF "error" \in DOMAIN kw THEN [t1 EXCEPT !.error = Some(kw.error)] ELSE t1

\* TaskQueue.update_task_status: the new tasks dict.
update_task_status(tks, id, status, kw, clock) ==
    IF get_task(tks, id) = None
    THEN tks
    ELSE [tks EXCEPT ![id] =
            SetOptional(StampTimes([@ EXCEPT !.status = status], status, clock), kw)]

NoKw == <<>>

\* add_progress called without details: details or {}. A details dict is the
\* set of its items.
NoDetails == {}

\* Task.add_progress with insert(0, ...) for append(...): newest entry first.
add_progress_Prepends(task, step, details, clock) ==
    [task EXCEPT !.progress =
        <<[timestamp |-> clock, step |-> step, details |-> details]>> \o @]

\* Task.add_progress
add_progress(task, step, details, clock) ==
    [task EXCEPT !.progress =
        Append(@, [timestamp |-> clock, step |-> step, details |-> details])]

\* TaskQueue.add_task_progress: the new tasks dict.
add_task_progress(tks, id, step, details, clock) ==
    IF get_task(tks, id) = None
    THEN tks
    ELSE [tks EXCEPT ![id] = add_progress(@, step, details, clock)]

\* Task.add_progress for steps[i], steps[i + 1], ... in turn.
RECURSIVE AddEach(_, _, _, _)
AddEach(task, steps, i, clock) ==
    IF i > Len(steps)
    THEN task
    ELSE AddEach(add_progress(task, steps[i], NoDetails, clock), steps, i + 1, clock)

\* handle_task_progress called for each of steps in turn (a run of progress
\* callbacks for one task with no suspension between them): the new tasks dict.
ReportSteps(tks, id, steps, clock) ==
    IF get_task(tks, id) = None
    THEN tks
    ELSE [tks EXCEPT ![id] = AddEach(@, steps, 1, clock)]

\* asyncio.Task.cancel() on the task that runs execute_task: a task that has not
\* taken its first step never runs the coroutine body; a task suspended in the
\* worker has CancelledError thrown in at its await.
TaskCancel(st) ==
    CASE st = "created" -> "done"
      [] st = "running" -> "cancelling"
      [] OTHER -> st

\* cancel_task without the del of the running_tasks entry.
cancel_task_KeepsEntry(tks, running, ex, id, clock) ==
    IF get_task(tks, id) = None
    THEN [ok |-> FALSE, tasks |-> tks, running_tasks |-> running, exec |-> ex]
    ELSE [ok |-> TRUE,
          tasks |-> update_task_status(tks, id, CANCELLED, NoKw, clock),
          running_tasks |-> running,
          exec |-> IF id \in running THEN [ex EXCEPT ![id] = TaskCancel(@)] ELSE ex]

\* TaskQueue.cancel_task: the return value and the new tasks, running_tasks and
\* asyncio task states.
cancel_task(tks, running, ex, id, clock) ==
    IF get_task(tks, id) = None
    THEN [ok |-> FALSE, tasks |-> tks, running_tasks |-> running, exec |-> ex]
    ELSE [ok |-> TRUE,
          tasks |-> update_task_status(tks, id, CANCELLED, NoKw, clock),
          running_tasks |-> running \ {id},
          exec |-> IF id \in running THEN [ex EXCEPT ![id] = TaskCancel(@)] ELSE ex]

\* TaskQueue.get_queue_stats()["running_tasks"]
RunningCount(running) == Cardinality(running)

\* The capacity test with > for >=: one task too many gets in.
AtCapacity_OffByOne(running) == RunningCount(running) > max_concurrent_tasks

\* task_processor's capacity test: TRUE when the dequeued id has to go back.
AtCapacity(running) == RunningCount(running) >= max_concurrent_tasks

\* TaskQueue.mark_task_running
mark_task_running(tks, running, id, clock) ==
    [running_tasks |-> running \cup {id},
     tasks |-> update_task_status(tks, id, RUNNING, NoKw, clock)]

\* mark_task_completed storing the result as an error of a Failed task.
mark_task_completed_AsFailed(tks, running, id, result, clock) ==
    [running_tasks |-> running \ {id},
     tasks |-> update_task_status(tks, id, FAILED, [error |-> "publish failed"], clock)]

\* TaskQueue.mark_task_completed
mark_task_completed(tks, running, id, result, clock) ==
    [running_tasks |-> running \ {id},
     tasks |-> update_task_status(tks, id, COMPLETED, [result |-> result], clock)]

\* mark_task_failed storing a wrapped message in place of the description.
mark_task_failed_Wrapped(tks, running, id, error, clock) ==
    [running_tasks |-> running \ {id},
     tasks |-> update_task_status(tks, id, FAILED,
                                  [error |-> "Task failed: " \o error], clock)]

\* TaskQueue.mark_task_failed
mark_task_failed(tks, running, id, error, clock) ==
    [running_tasks |-> running \ {id},
     tasks |-> update_task_status(tks, id, FAILED, [error |-> error], clock)]

\* --------------------------------------------------------- browser_service.py

\* What execute_task and execute_command report before the first await that
\* suspends (llm_client.test_connection).
StartSteps == <<"Starting execution", "Initializing LLM client", "Testing LLM connection">>

\* What execute_command reports from there on when nothing fails.
WorkerSteps ==
    <<"Starting browser", "Creating automation agent", "Starting task execution",
      "Task completed successfully">>

\* The details of execute_command's "Task failed" report: {"error": error_msg}.
ErrorDetails(e) == {<<"error", "Automation failed: " \o e>>}

\* execute_command's return value when the agent ran to its end.
SuccessResult(r) == [success |-> TRUE, result |-> r]

\* execute_command's except branch: error_msg = f"Automation failed: {str(e)}".
ErrorResult(e) == [success |-> FALSE, error |-> "Automation failed: " \o e]

\* -------------------------------------------------------------- api_server.py

\* get_task_result without the test of the status: the body whatever it is.
get_task_result_AnyStatus(tks, id) ==
    IF get_task(tks, id) = None
    THEN [code |-> 404, detail |-> "Task not found"]
    ELSE [code |-> 200, task_id |-> id, result |-> tks[id].result,
          progress |-> tks[id].progress, completed_at |-> tks[id].completed_at]

\* GET /api/tasks/{task_id}/result: the HTTP status and the detail of the
\* HTTPException, or the body of the response.
get_task_result(tks, id) ==
    IF get_task(tks, id) = None
    THEN [code |-> 404, detail |-> "Task not found"]
    ELSE IF tks[id].status # COMPLETED
         THEN [code |-> 400,
               detail |-> "Task not completed (status: " \o tks[id].status \o ")"]
         ELSE [code |-> 200, task_id |-> id, result |-> tks[id].result,
               progress |-> tks[id].progress, completed_at |-> tks[id].completed_at]

\* ------------------------------------------------------ websocket_manager.py

\* WebSocket handles: the objects FastAPI hands to websocket_endpoint, in the
\* order they connect.
Conns == 1..MaxConns

\* Who can be suspended in a publish: a caller outside the task handlers, the
\* execution of a task, a cancel request, the create request of a task.
Publishers ==
    {<<"caller", i>> : i \in 1..MaxCallers} \cup {<<"exec", id>> : id \in TaskIds}
        \cup {<<"cancel", n>> : n \in 1..MaxCancels} \cup {<<"create", id>> : id \in TaskIds}

\* The task ids used as filters and as the keys of publishes.
Watched == 1..MaxWatched

\* The optional task_id query parameter of /ws/updates.
Filters == {None} \cup {Some(id) : id \in Watched}

\* WebSocketManager.connect after websocket.accept(): the new active_connections
\* and task_subscribers.
connect(active, subs, c, filter) ==
    [active_connections |-> active \cup {c},
     task_subscribers |->
        IF filter = None
        THEN subs
        ELSE [k \in DOMAIN subs \cup {filter[1]} |->
                IF k = filter[1]
                THEN (IF k \in DOMAIN subs THEN subs[k] ELSE {}) \cup {c}
                ELSE subs[k]]]

\* disconnect that leaves the subscriber sets alone.
disconnect_OnlyActive(active, subs, c) ==
    [active_connections |-> active \ {c}, task_subscribers |-> subs]

\* disconnect without the discard from active_connections.
disconnect_KeepsActive(active, subs, c) ==
    [active_connections |-> active,
     task_subscribers |->
        [k \in {x \in DOMAIN subs : subs[x] \ {c} # {}} |-> subs[k] \ {c}]]

\* WebSocketManager.disconnect: the connection leaves active_connections and
\* every subscriber set, and a task id whose set became empty is deleted.
disconnect(active, subs, c) ==
    [active_connections |-> active \ {c},
     task_subscribers |->
        [k \in {x \in DOMAIN subs : subs[x] \ {c} # {}} |-> subs[k] \ {c}]]

\* "for websocket in disconnected: self.disconnect(websocket)"
RECURSIVE CleanUp(_, _, _)
CleanUp(active, subs, disconnected) ==
    IF disconnected = {}
    THEN [active_connections |-> active, task_subscribers |-> subs]
    ELSE LET c == CHOOSE x \in disconnected : TRUE
             d == disconnect(active, subs, c)
         IN  CleanUp(d.active_connections, d.task_subscribers, disconnected \ {c})

\* broadcast_task_update's message with what send_to_task_subscribers adds.
TaskMessage(task_id, update_type, data, clock) ==
    [type |-> "task_update", update_type |-> update_type, data |-> data,
     task_id |-> task_id, timestamp |-> clock]

\* broadcast_system_message's message with what send_to_all adds.
SystemMessage(message_type, data, clock) ==
    [type |-> "system", message_type |-> message_type, data |-> data,
     timestamp |-> clock]

\* The subscribers send_to_task_subscribers takes all active connections for.
Recipients_AllActive(active, subs, task_id) == active

\* send_to_task_subscribers sending to one of the subscribers only.
Recipients_One(active, subs, task_id) ==
    IF task_id \notin DOMAIN subs THEN {} ELSE {CHOOSE c \in subs[task_id] : TRUE}

\* The connections send_to_task_subscribers will send to: nobody when the task
\* id has no subscriber set, else a copy of the set.
Recipients(active, subs, task_id) ==
    IF task_id \notin DOMAIN subs THEN {} ELSE subs[task_id]

\* A call of send_to_task_subscribers (kind "task") or send_to_all (kind "all")
\* that is under way: message is what it sends, todo the part of the copy it
\* has still to send to, tried the connections it has sent to, failed its
\* "disconnected" set, size the size of active_connections when send_to_all
\* began to iterate over it; start (history) is the set of connections that
\* were subscribed (active) when the call began.
Publish(kind, message, start, todo, size) ==
    [kind |-> kind, message |-> message, start |-> start, todo |-> todo,
     tried |-> {}, failed |-> {}, size |-> size, status |-> "sending"]

\* websocket.send_text raises for a connection whose peer is gone or that is
\* closed.
SendFails(c) == ws[c] # "open"

\* A dict as json.dumps writes it: the set of its items.
Items(d) == {<<k, d[k]>> : k \in DOMAIN d}

\* The connections subscribed to task_id now.
Subscribed(task_id) ==
    {c \in Conns : task_id \in DOMAIN task_subscribers /\ c \in task_subscribers[task_id]}

\* The send loop giving up at the first send that fails.
CallSend_StopsAtFailure(r, c) ==
    [r EXCEPT !.todo = IF SendFails(c) THEN {} ELSE @ \ {c},
              !.tried = @ \cup {c},
              !.failed = IF SendFails(c) THEN @ \cup {c} ELSE @]

\* The call r goes into "await websocket.send_text(message_json)" for c: the
\* message is handed over, or the send will raise and c joins "disconnected".
CallSend(r, c) ==
    [r EXCEPT !.todo = @ \ {c}, !.tried = @ \cup {c},
              !.failed = IF SendFails(c) THEN @ \cup {c} ELSE @]

\* What the send of message to c does to the connection's side.
Deliver(c, message) ==
    inbox' = IF SendFails(c) THEN inbox ELSE [inbox EXCEPT ![c] = Append(@, message)]

\* send_to_task_subscribers up to its first suspension, with ps for the calls
\* under way: it returns at once when nobody is subscribed, else it copies the
\* subscriber set and goes into its first send.
StartTaskPublishFrom(ps, p, task_id, update_type, data) ==
    LET r == Publish("task", TaskMessage(task_id, update_type, data, now),
                     Subscribed(task_id),
                     Recipients(active_connections, task_subscribers, task_id), 0)
    IN  /\ IF r.todo = {}
           THEN /\ pubs' = [ps EXCEPT ![p] = Some([r EXCEPT !.status = "returned"])]
                /\ UNCHANGED inbox
           ELSE \E c \in r.todo :
                /\ pubs' = [ps EXCEPT ![p] = Some(CallSend(r, c))]
                /\ Deliver(c, r.message)
        /\ UNCHANGED <<active_connections, task_subscribers, ws>>

StartTaskPublish(p, task_id, update_type, data) ==
    StartTaskPublishFrom(pubs, p, task_id, update_type, data)

\* A task handler awaits broadcast_task_update: nothing happens and the handler
\* goes on when nobody is subscribed, else the handler is suspended in the
\* publish, which is p's from now on.
HandlerPublishFrom(ps, p, task_id, update_type, data) ==
    IF Recipients(active_connections, task_subscribers, task_id) = {}
    THEN /\ pubs' = ps
         /\ UNCHANGED <<active_connections, task_subscribers, ws, inbox>>
    ELSE StartTaskPublishFrom(ps, p, task_id, update_type, data)

HandlerPublish(p, task_id, update_type, data) ==
    HandlerPublishFrom(pubs, p, task_id, update_type, data)

\* p is suspended in a send of its publish.
Publishing(p) == pubs[p] # None /\ pubs[p][1].status = "sending"

\* The publisher that is the execution of task id.
ExecSlot(id) == <<"exec", id>>

\* asyncio.Task.cancel() on an execution that is suspended in a send of its
\* own publish: the CancelledError is thrown in at the send, no except clause
\* of the broadcaster catches it, and the publish ends there.
AbortPublish(ps, id, running, ex) ==
    IF /\ id \in running
       /\ ex[id] = "running"
       /\ ps[ExecSlot(id)] # None
       /\ ps[ExecSlot(id)][1].status = "sending"
    THEN [ps EXCEPT ![ExecSlot(id)] = Some([ps[ExecSlot(id)][1] EXCEPT !.status = "cancelled"])]
    ELSE ps

\* The publish of the execution of id was ended by a cancel.
Aborted(id) == pubs[ExecSlot(id)] # None /\ pubs[ExecSlot(id)][1].status = "cancelled"

\* The data of the events the handlers publish.
TaskStartedData == {<<"command", "go">>}

\* execute_task's first agent_step: {"step": ..., "status": "running"}.
FirstStepData(step) == {<<"step", step>>, <<"status", "running">>}

\* handle_task_progress's agent_step: {"step": step, "details": details}.
AgentStepData(step, details) == {<<"step", step>>} \cup {<<"details", d>> : d \in details}

\* ------------------------------------------------------------------- actions

Init ==
    /\ tasks = <<>>
    /\ scheduled = <<>>
    /\ pending_queue = <<>>
    /\ running_tasks = {}
    /\ exec = [id \in TaskIds |-> "none"]
    /\ loop = "get"
    /\ now = 1
    /\ cancels = 0
    /\ launched = [id \in TaskIds |-> 0]
    /\ requeued = {}
    /\ returned = [id \in TaskIds |-> None]
    /\ active_connections = {}
    /\ task_subscribers = <<>>
    /\ ws = [c \in Conns |-> "none"]
    /\ pubs = [p \in Publishers |-> None]
    /\ inbox = [c \in Conns |-> <<>>]

\* create_task scheduling the put of the new id twice.
CreateTask_PutsTwice ==
    /\ Len(tasks) < MaxTasks
    /\ LET id == Len(tasks) + 1 IN
        /\ tasks' = Append(tasks, NewTask(id, now))
        /\ scheduled' = Append(Append(scheduled, id), id)
        /\ HandlerPublish(<<"create", id>>, id, "task_started", TaskStartedData)
    /\ UNCHANGED <<pending_queue, running_tasks, exec, loop, now, cancels, launched, requeued, returned>>

\* POST /api/execute -> TaskQueue.create_task: a fresh id, the record, and the
\* put scheduled with asyncio.create_task; then broadcast_task_started.
CreateTask ==
    /\ Len(tasks) < MaxTasks
    /\ LET id == Len(tasks) + 1 IN
        /\ tasks' = Append(tasks, NewTask(id, now))
        /\ scheduled' = Append(scheduled, id)
        /\ HandlerPublish(<<"create", id>>, id, "task_started", TaskStartedData)
    /\ UNCHANGED <<pending_queue, running_tasks, exec, loop, now, cancels, launched, requeued, returned>>

\* The scheduled put placing the id at the head of the queue.
PutScheduled_AtHead ==
    /\ scheduled # <<>>
    /\ pending_queue' = <<Head(scheduled)>> \o pending_queue
    /\ scheduled' = Tail(scheduled)
    /\ UNCHANGED <<tasks, running_tasks, exec, loop, now, cancels, launched, requeued, returned>>
    /\ UNCHANGED bvars

\* The scheduled pending_queue.put(task_id) runs (the queue is unbounded, so
\* it never waits); the event loop runs scheduled coroutines in order.
PutScheduled ==
    /\ scheduled # <<>>
    /\ pending_queue' = Append(pending_queue, Head(scheduled))
    /\ scheduled' = Tail(scheduled)
    /\ UNCHANGED <<tasks, running_tasks, exec, loop, now, cancels, launched, requeued, returned>>
    /\ UNCHANGED bvars

\* task_processor dropping the dequeued id at the ceiling in place of putting
\* it back.
TaskProcessorStep_DropsAtCapacity ==
    /\ loop = "get"
    /\ pending_queue # <<>>
    /\ LET task_id == Head(pending_queue) IN
        IF AtCapacity(running_tasks)
        THEN /\ pending_queue' = Tail(pending_queue)
             /\ loop' = "sleep"
             /\ requeued' = requeued \cup {task_id}
             /\ UNCHANGED <<tasks, running_tasks, exec, launched>>
        ELSE LET m == mark_task_running(tasks, running_tasks, task_id, now) IN
             /\ pending_queue' = Tail(pending_queue)
             /\ exec' = [exec EXCEPT ![task_id] = "created"]
             /\ tasks' = m.tasks
             /\ running_tasks' = m.running_tasks
             /\ launched' = [launched EXCEPT ![task_id] = @ + 1]
             /\ UNCHANGED <<loop, requeued>>
    /\ UNCHANGED <<scheduled, now, cancels, returned>>
    /\ UNCHANGED bvars

\* One iteration of task_processor's loop from get_next_task up to the next
\* suspension: the requeue and sleep, or the admission.
TaskProcessorStep ==
    /\ loop = "get"
    /\ pending_queue # <<>>
    /\ LET task_id == Head(pending_queue) IN
        IF AtCapacity(running_tasks)
        THEN /\ pending_queue' = Append(Tail(pending_queue), task_id)
             /\ loop' = "sleep"
             /\ requeued' = requeued \cup {task_id}
             /\ UNCHANGED <<tasks, running_tasks, exec, launched>>
        ELSE LET m == mark_task_running(tasks, running_tasks, task_id, now) IN
             /\ pending_queue' = Tail(pending_queue)
             /\ exec' = [exec EXCEPT ![task_id] = "created"]
             /\ tasks' = m.tasks
             /\ running_tasks' = m.running_tasks
             /\ launched' = [launched EXCEPT ![task_id] = @ + 1]
             /\ UNCHANGED <<loop, requeued>>
    /\ UNCHANGED <<scheduled, now, cancels, returned>>
    /\ UNCHANGED bvars

\* task_processor's asyncio.sleep(1) after a requeue is over.
TaskProcessorWake ==
    /\ loop = "sleep"
    /\ loop' = "get"
    /\ UNCHANGED <<tasks, scheduled, pending_queue, running_tasks, exec, now, cancels, launched, requeued, returned>>
    /\ UNCHANGED bvars

\* Somebody is subscribed to id: a publish for id suspends its handler.
Observed(id) == Recipients(active_connections, task_subscribers, id) # {}

\* execute_task takes its first step: it reports "Starting execution" and
\* publishes it. With nobody subscribed the publish returns at once and the
\* execution goes on to its first await that suspends, inside execute_command.
ExecuteTaskStart(id) ==
    /\ exec[id] = "created"
    /\ exec' = [exec EXCEPT ![id] = "running"]
    /\ tasks' = ReportSteps(tasks, id, IF Observed(id) THEN <<Head(StartSteps)>> ELSE StartSteps, now)
    /\ HandlerPublish(ExecSlot(id), id, "agent_step", FirstStepData(Head(StartSteps)))
    /\ UNCHANGED <<scheduled, pending_queue, running_tasks, loop, now, cancels, launched, requeued, returned>>

\* execute_command has reported "Task failed" for id.
ReportedFailure(id) ==
    /\ tasks[id].progress # <<>>
    /\ tasks[id].progress[Len(tasks[id].progress)].step = "Task failed"

\* The execution can still hand a report to execute_task: it is suspended in the
\* worker, or the worker took the CancelledError and went on (the browser agent
\* and the LLM client are free to catch it); it is not suspended in a publish
\* and no cancel ended its publish.
Reporting(id) ==
    /\ exec[id] \in {"running", "cancelling"}
    /\ ~Publishing(ExecSlot(id))
    /\ ~Aborted(id)

\* How many of its steps the execution of id has reported: it is the only
\* writer of the task's progress.
WorkerPosition(id) == Len(tasks[id].progress)

\* The steps the execution still has to report before execute_command returns
\* a success.
StepsLeft(id) ==
    SubSeq(StartSteps \o WorkerSteps, WorkerPosition(id) + 1, Len(StartSteps \o WorkerSteps))

\* execute_command resumes, reports its next step through progress_callback
\* (handle_task_progress), which publishes it, and suspends in its next await.
WorkerProgress(id) ==
    /\ id <= MaxStepwise \/ Observed(id)
    /\ Reporting(id)
    /\ ~ReportedFailure(id)
    /\ StepsLeft(id) # <<>>
    /\ tasks' = ReportSteps(tasks, id, <<Head(StepsLeft(id))>>, now)
    /\ HandlerPublish(ExecSlot(id), id, "agent_step", AgentStepData(Head(StepsLeft(id)), NoDetails))
    /\ UNCHANGED <<scheduled, pending_queue, running_tasks, exec, loop, now, cancels, launched, requeued, returned>>

\* execute_command reports the steps left (with nobody subscribed no report
\* suspends in a publish) and returns a success result; execute_task marks the
\* task completed and publishes task_completed with the result.
WorkerSucceeds(id, r) ==
    /\ Reporting(id)
    /\ ~ReportedFailure(id)
    /\ StepsLeft(id) = <<>> \/ ~Observed(id)
    /\ HandlerPublish(ExecSlot(id), id, "task_completed", Items(SuccessResult(r)))
    /\ LET m == mark_task_completed(ReportSteps(tasks, id, StepsLeft(id), now),
                                    running_tasks, id, SuccessResult(r), now) IN
        /\ tasks' = m.tasks
        /\ running_tasks' = m.running_tasks
    /\ exec' = [exec EXCEPT ![id] = "done"]
    /\ returned' = [returned EXCEPT ![id] = Some(SuccessResult(r))]
    /\ UNCHANGED <<scheduled, pending_queue, loop, now, cancels, launched, requeued>>

\* execute_command catches an exception of the automation, reports "Task
\* failed" and returns the error result; execute_task goes on to
\* mark_task_completed with it and publishes task_completed. With somebody
\* subscribed the report suspends in its publish, and the return is
\* WorkerReturnsErrorEnd.
WorkerReturnsError(id, e) ==
    /\ Reporting(id)
    /\ ~ReportedFailure(id)
    /\ IF Observed(id)
       THEN /\ tasks' = add_task_progress(tasks, id, "Task failed", ErrorDetails(e), now)
            /\ HandlerPublish(ExecSlot(id), id, "agent_step", AgentStepData("Task failed", ErrorDetails(e)))
            /\ UNCHANGED <<running_tasks, exec, returned>>
       ELSE /\ LET m == mark_task_completed(
                            add_task_progress(tasks, id, "Task failed", ErrorDetails(e), now),
                            running_tasks, id, ErrorResult(e), now) IN
                /\ tasks' = m.tasks
                /\ running_tasks' = m.running_tasks
            /\ exec' = [exec EXCEPT ![id] = "done"]
            /\ returned' = [returned EXCEPT ![id] = Some(ErrorResult(e))]
            /\ UNCHANGED bvars
    /\ UNCHANGED <<scheduled, pending_queue, loop, now, cancels, launched, requeued>>

\* The publish of the "Task failed" report is over: execute_command returns the
\* error result, execute_task marks the task completed with it and publishes
\* task_completed.
WorkerReturnsErrorEnd(id, e) ==
    /\ Reporting(id)
    /\ ReportedFailure(id)
    /\ tasks[id].progress[Len(tasks[id].progress)].details = ErrorDetails(e)
    /\ LET m == mark_task_completed(tasks, running_tasks, id, ErrorResult(e), now) IN
        /\ tasks' = m.tasks
        /\ running_tasks' = m.running_tasks
    /\ exec' = [exec EXCEPT ![id] = "done"]
    /\ returned' = [returned EXCEPT ![id] = Some(ErrorResult(e))]
    /\ HandlerPublish(ExecSlot(id), id, "task_completed", Items(ErrorResult(e)))
    /\ UNCHANGED <<scheduled, pending_queue, loop, now, cancels, launched, requeued>>

\* execute_task without its except branch: the exception ends the dispatch loop.
WorkerRaises_StopsLoop(id, e) ==
    /\ Reporting(id)
    /\ LET m == mark_task_failed(tasks, running_tasks, id, e, now) IN
        /\ tasks' = m.tasks
        /\ running_tasks' = m.running_tasks
    /\ exec' = [exec EXCEPT ![id] = "done"]
    /\ loop' = "stopped"
    /\ HandlerPublish(ExecSlot(id), id, "task_failed", {<<"error", e>>})
    /\ UNCHANGED <<scheduled, pending_queue, now, cancels, launched, requeued, returned>>

\* The call of execute_command raises e; execute_task's except branch stores
\* str(e) and publishes task_failed with it.
WorkerRaises(id, e) ==
    /\ Reporting(id)
    /\ LET m == mark_task_failed(tasks, running_tasks, id, e, now) IN
        /\ tasks' = m.tasks
        /\ running_tasks' = m.running_tasks
    /\ exec' = [exec EXCEPT ![id] = "done"]
    /\ HandlerPublish(ExecSlot(id), id, "task_failed", {<<"error", e>>})
    /\ UNCHANGED <<scheduled, pending_queue, loop, now, cancels, launched, requeued, returned>>

\* The CancelledError thrown in by cancel_task leaves execute_command and
\* execute_task (neither except Exception catches it): the execution ends
\* without a report.
CancelPropagates(id) ==
    /\ exec[id] = "cancelling"
    /\ ~Publishing(ExecSlot(id))
    /\ exec' = [exec EXCEPT ![id] = "done"]
    /\ UNCHANGED <<tasks, scheduled, pending_queue, running_tasks, loop, now, cancels, launched, requeued, returned>>
    /\ UNCHANGED bvars

\* The ids a caller can name: create_task's caller gets the id back only after
\* the put it scheduled is in the event loop's ready queue, ahead of any request
\* that uses the id.
Known(id) ==
    /\ id \in DOMAIN tasks
    /\ \A i \in DOMAIN scheduled : scheduled[i] # id

\* DELETE /api/tasks/{id} -> TaskQueue.cancel_task for an id of a created
\* task, then broadcast_task_update(task_id, "task_cancelled", {}).
CancelTask(id) ==
    /\ Known(id)
    /\ cancels < MaxCancels
    /\ cancels' = cancels + 1
    /\ LET c == cancel_task(tasks, running_tasks, exec, id, now) IN
        /\ c.ok
        /\ tasks' = c.tasks
        /\ running_tasks' = c.running_tasks
        /\ exec' = c.exec
    /\ HandlerPublishFrom(AbortPublish(pubs, id, running_tasks, exec),
                          <<"cancel", cancels + 1>>, id, "task_cancelled", NoDetails)
    /\ UNCHANGED <<scheduled, pending_queue, loop, now, launched, requeued, returned>>

Next ==
    \/ CreateTask
    \/ PutScheduled
    \/ TaskProcessorStep
    \/ TaskProcessorWake
    \/ \E id \in TaskIds : ExecuteTaskStart(id)
    \/ \E id \in TaskIds, r \in AgentResults : WorkerSucceeds(id, r)
    \/ \E id \in TaskIds, e \in Faults : WorkerReturnsError(id, e)
    \/ \E id \in TaskIds, e \in Faults : WorkerRaises(id, e)
    \/ \E id \in TaskIds : CancelPropagates(id)
    \/ \E id \in TaskIds : CancelTask(id)

Spec == Init /\ [][Next]_vars

\* datetime.utcnow() moves on between two steps of the event loop.
Tick ==
    /\ now < MaxClock
    /\ now' = now + 1
    /\ UNCHANGED <<tasks, scheduled, pending_queue, running_tasks, exec, loop,
                   cancels, launched, requeued, returned>>
    /\ UNCHANGED bvars

\* The service with the clock moving.
NextClock == Next \/ Tick

SpecClock == Init /\ [][NextClock]_vars

\* The service with the executions' progress reports taken one at a time.
NextProgress == Next \/ \E id \in TaskIds : WorkerProgress(id)

SpecProgress == Init /\ [][NextProgress]_vars

\* ---------------------------------------------------- broadcaster actions

\* /ws/updates?task_id=...: websocket_endpoint accepts the connection and
\* WebSocketManager.connect registers it.
Connect(c, filter) ==
    /\ ws[c] = "none"
    /\ \A d \in Conns : d < c => ws[d] # "none"
    /\ LET m == connect(active_connections, task_subscribers, c, filter) IN
        /\ active_connections' = m.active_connections
        /\ task_subscribers' = m.task_subscribers
    /\ ws' = [ws EXCEPT ![c] = "open"]
    /\ UNCHANGED <<pubs, inbox>>
    /\ UNCHANGED tvars

\* The peer of a connection goes away: from now on a send to it raises, and
\* websocket_endpoint's receive_text will raise WebSocketDisconnect.
PeerCloses(c) ==
    /\ ws[c] = "open"
    /\ ws' = [ws EXCEPT ![c] = "broken"]
    /\ UNCHANGED <<active_connections, task_subscribers, pubs, inbox>>
    /\ UNCHANGED tvars

\* websocket_endpoint leaves its receive loop and its finally clause calls
\* WebSocketManager.disconnect (whether or not a publish has already dropped
\* the connection).
EndpointDisconnects(c) ==
    /\ ws[c] = "broken"
    /\ ws' = [ws EXCEPT ![c] = "closed"]
    /\ LET d == disconnect(active_connections, task_subscribers, c) IN
        /\ active_connections' = d.active_connections
        /\ task_subscribers' = d.task_subscribers
    /\ UNCHANGED <<pubs, inbox>>
    /\ UNCHANGED tvars

\* send_to_all up to its first suspension: it returns at once when nobody is
\* connected, else it starts to iterate over active_connections itself.
StartSystemPublish(p, message_type, data) ==
    LET r == Publish("all", SystemMessage(message_type, data, now),
                     active_connections, {}, Cardinality(active_connections))
    IN  /\ IF active_connections = {}
           THEN /\ pubs' = [pubs EXCEPT ![p] = Some([r EXCEPT !.status = "returned"])]
                /\ UNCHANGED inbox
           ELSE \E c \in active_connections :
                /\ pubs' = [pubs EXCEPT ![p] = Some(CallSend(r, c))]
                /\ Deliver(c, r.message)
        /\ UNCHANGED <<active_connections, task_subscribers, ws>>

\* The end of the for loop: the connections in "disconnected" are disconnected
\* and the call returns.
FinishPublish(p, r) ==
    /\ LET m == CleanUp(active_connections, task_subscribers, r.failed) IN
        /\ active_connections' = m.active_connections
        /\ task_subscribers' = m.task_subscribers
    /\ pubs' = [pubs EXCEPT ![p] = Some([r EXCEPT !.status = "returned"])]
    /\ UNCHANGED <<inbox, ws>>

\* What is left for the iterator over the live set active_connections to
\* yield: the connections not yet visited.
LeftToVisit(r) == active_connections \ r.tried

\* The publish of p resumes from a send and takes the next step of its for
\* loop. send_to_task_subscribers iterates over its copy. send_to_all iterates
\* over active_connections itself: the set iterator raises RuntimeError when the
\* size of the set is not what it was when the loop began, which leaves
\* send_to_all without the clean-up; when the set changed and has its old size
\* again, the iterator may pass over connections that came in the meantime.
ResumePublish(p) ==
    /\ pubs[p] # None
    /\ pubs[p][1].status = "sending"
    /\ LET r == pubs[p][1] IN
        IF r.kind = "task"
        THEN IF r.todo = {}
             THEN FinishPublish(p, r)
             ELSE /\ \E c \in r.todo :
                        /\ pubs' = [pubs EXCEPT ![p] = Some(CallSend(r, c))]
                        /\ Deliver(c, r.message)
                  /\ UNCHANGED <<active_connections, task_subscribers, ws>>
        ELSE IF Cardinality(active_connections) # r.size
             THEN /\ pubs' = [pubs EXCEPT ![p] = Some([r EXCEPT !.status = "raised"])]
                  /\ UNCHANGED <<active_connections, task_subscribers, ws, inbox>>
             ELSE \/ /\ LeftToVisit(r) \subseteq (active_connections \ r.start)
                     /\ FinishPublish(p, r)
                  \/ /\ \E c \in LeftToVisit(r) :
                            /\ pubs' = [pubs EXCEPT ![p] = Some(CallSend(r, c))]
                            /\ Deliver(c, r.message)
                     /\ UNCHANGED <<active_connections, task_subscribers, ws>>

\* The update types and the data of the events published from outside the task
\* handlers.
CallerEvents == {<<"browser_action", {<<"action", "click">>}>>}

\* The message types of the system-wide messages.
SystemEvents == {"shutdown"}

\* The caller slots are used in order, each for one publish.
Free(p) ==
    /\ p[1] = "caller"
    /\ pubs[p] = None
    /\ \A q \in Publishers : (q[1] = "caller" /\ q[2] < p[2]) => pubs[q] # None

\* A call of broadcast_task_update for task_id from outside the task handlers
\* (broadcast_browser_action).
CallerPublishes(p, task_id, ev) ==
    /\ Free(p)
    /\ StartTaskPublish(p, task_id, ev[1], ev[2])
    /\ UNCHANGED tvars

\* A call of broadcast_system_message.
CallerPublishesSystemWide(p, message_type) ==
    /\ Free(p)
    /\ StartSystemPublish(p, message_type, NoDetails)
    /\ UNCHANGED tvars

\* A publish of a caller goes on.
CallerResumes(p) ==
    /\ p[1] = "caller"
    /\ ResumePublish(p)
    /\ UNCHANGED tvars

\* POST /api/execute while fewer than MaxTasks + MaxExtra tasks exist.
CreateUnderLoad ==
    /\ Len(tasks) < MaxTasks + MaxExtra
    /\ LET id == Len(tasks) + 1 IN
        /\ tasks' = Append(tasks, NewTask(id, now))
        /\ scheduled' = Append(scheduled, id)
        /\ HandlerPublish(<<"create", id>>, id, "task_started", TaskStartedData)
    /\ UNCHANGED <<pending_queue, running_tasks, exec, loop, now, cancels, launched, requeued, returned>>

\* An iteration of task_processor raises in its await of get_next_task
\* (asyncio.Queue.get raises before it takes an item off the queue, never
\* after; the statements that follow the dequeue have no raising path for the
\* id of an existing task): the except branch logs the error and goes into
\* asyncio.sleep(5).
TaskProcessorFault ==
    /\ loop = "get"
    /\ loop' = "backoff"
    /\ UNCHANGED <<tasks, scheduled, pending_queue, running_tasks, exec, now, cancels, launched, requeued, returned>>
    /\ UNCHANGED bvars

\* The asyncio.sleep(5) of the except branch is over: the loop goes on with
\* its next iteration.
TaskProcessorRecovers ==
    /\ loop = "backoff"
    /\ loop' = "get"
    /\ UNCHANGED <<tasks, scheduled, pending_queue, running_tasks, exec, now, cancels, launched, requeued, returned>>
    /\ UNCHANGED bvars

\* The dispatcher under load: more tasks than the ceiling plus one, executions
\* that end with a result, cancels, and iterations of the loop that raise.
NextLoad ==
    \/ CreateUnderLoad
    \/ PutScheduled
    \/ TaskProcessorStep
    \/ TaskProcessorWake
    \/ TaskProcessorFault
    \/ TaskProcessorRecovers
    \/ \E id \in TaskIds : ExecuteTaskStart(id)
    \/ \E id \in TaskIds, r \in AgentResults : WorkerSucceeds(id, r)
    \/ \E id \in TaskIds : CancelTask(id)

SpecLoad == Init /\ [][NextLoad]_vars

\* The broadcaster with its connections and callers, no task in the registry.
NextBroadcast ==
    \/ \E c \in Conns, f \in Filters : Connect(c, f)
    \/ \E c \in Conns : PeerCloses(c)
    \/ \E c \in Conns : EndpointDisconnects(c)
    \/ \E p \in Publishers, id \in Watched, ev \in CallerEvents : CallerPublishes(p, id, ev)
    \/ \E p \in Publishers, t \in SystemEvents : CallerPublishesSystemWide(p, t)
    \/ \E p \in Publishers : CallerResumes(p)

SpecBroadcast == Init /\ [][NextBroadcast]_vars

\* The publish a task handler is suspended in goes on.
HandlerResumes(p) ==
    /\ p[1] # "caller"
    /\ ResumePublish(p)
    /\ UNCHANGED tvars

\* POST /api/execute while fewer than MaxObserved tasks exist.
CreateObserved ==
    /\ Len(tasks) < MaxObserved
    /\ CreateTask

\* A task is subscribed to on connection c.
Subscribes(c, id) ==
    /\ c <= MaxSubscribers
    /\ id <= MaxObserved
    /\ Connect(c, Some(id))

\* The service with subscribers to its tasks: the handlers, the dispatch loop,
\* the executions and the connections that subscribe to a task, before or
\* after it is created, and stay connected.
NextEvents ==
    \/ CreateObserved
    \/ PutScheduled
    \/ TaskProcessorStep
    \/ \E id \in TaskIds : ExecuteTaskStart(id)
    \/ \E id \in TaskIds : WorkerProgress(id)
    \/ \E id \in TaskIds, r \in AgentResults : WorkerSucceeds(id, r)
    \/ \E id \in TaskIds, e \in Faults : WorkerReturnsError(id, e)
    \/ \E id \in TaskIds, e \in Faults : WorkerReturnsErrorEnd(id, e)
    \/ \E id \in TaskIds, e \in Faults : WorkerRaises(id, e)
    \/ \E id \in TaskIds : CancelPropagates(id)
    \/ \E id \in TaskIds : CancelTask(id)
    \/ \E c \in Conns, id \in TaskIds : Subscribes(c, id)
    \/ \E p \in Publishers : HandlerResumes(p)

SpecEvents == Init /\ [][NextEvents]_vars

\* The first connection subscribes to a task.
SubscribesAlone(c, id) ==
    /\ c = 1
    /\ id <= MaxObserved
    /\ Connect(c, Some(id))

\* The service with one subscriber whose peer may go away at any time, so
\* that sends of the handlers' publishes fail.
NextDrops ==
    \/ CreateObserved
    \/ PutScheduled
    \/ TaskProcessorStep
    \/ \E id \in TaskIds : ExecuteTaskStart(id)
    \/ \E id \in TaskIds : WorkerProgress(id)
    \/ \E id \in TaskIds, r \in AgentResults : WorkerSucceeds(id, r)
    \/ \E id \in TaskIds, e \in Faults : WorkerReturnsError(id, e)
    \/ \E id \in TaskIds, e \in Faults : WorkerReturnsErrorEnd(id, e)
    \/ \E id \in TaskIds, e \in Faults : WorkerRaises(id, e)
    \/ \E id \in TaskIds : CancelPropagates(id)
    \/ \E id \in TaskIds : CancelTask(id)
    \/ \E c \in Conns, id \in TaskIds : SubscribesAlone(c, id)
    \/ \E c \in Conns : PeerCloses(c)
    \/ \E c \in Conns : EndpointDisconnects(c)
    \/ \E p \in Publishers : HandlerResumes(p)

SpecDrops == Init /\ [][NextDrops]_vars

\* ------------------------------------------------------------------- claims

StatusOf(id) == tasks[id].status

RunningIds == {id \in DOMAIN tasks : StatusOf(id) = RUNNING}

InQueue(id) == \E i \in DOMAIN pending_queue : pending_queue[i] = id

\* The edges of the task state machine.
LegalEdges ==
    {<<PENDING, RUNNING>>, <<PENDING, CANCELLED>>, <<RUNNING, COMPLETED>>,
     <<RUNNING, FAILED>>, <<RUNNING, CANCELLED>>}

\* C1: every change of a task's status is one of Pending->Running,
\* Pending->Cancelled, Running->Completed, Running->Failed, Running->Cancelled;
\* in particular a Completed, Failed or Cancelled task never changes status.
C1_OnlyLegalEdges ==
    [][\A id \in DOMAIN tasks :
          tasks'[id].status # tasks[id].status
              => <<tasks[id].status, tasks'[id].status>> \in LegalEdges]_vars

\* C2: in every reachable state at most max_concurrent_tasks tasks have status
\* Running.
C2_AtMostCRunning == Cardinality(RunningIds) <= max_concurrent_tasks

\* The ceiling is reached, the dispatch loop has met it (it put an id back and
\* sleeps) and a Pending task is waiting in the queue.
C2_Witness ==
    /\ Cardinality(RunningIds) = max_concurrent_tasks
    /\ loop = "sleep"
    /\ \E id \in DOMAIN tasks : StatusOf(id) = PENDING /\ InQueue(id) /\ id \in requeued

\* C3: cancelling a Running task sets its status to Cancelled at once, and a
\* report of the worker that arrives afterwards is discarded: the status stays
\* Cancelled and result and error stay unset.
C3_LateReportDiscarded ==
    [][\A id \in DOMAIN tasks :
          /\ (StatusOf(id) = RUNNING /\ CancelTask(id))
                => tasks'[id].status = CANCELLED
          /\ (StatusOf(id) = CANCELLED /\ exec[id] = "cancelling")
                => /\ tasks'[id].status = CANCELLED
                   /\ tasks'[id].result = None
                   /\ tasks'[id].error = None]_vars

\* C4: cancelling a Pending task sets its status to Cancelled, and from then on
\* its status is Cancelled and its started_at is unset in every later state.
C4_PendingCancelIsFinal ==
    [][\A id \in DOMAIN tasks :
          /\ (StatusOf(id) = PENDING /\ CancelTask(id))
                => (tasks'[id].status = CANCELLED /\ tasks'[id].started_at = None)
          /\ (StatusOf(id) = CANCELLED /\ tasks[id].started_at = None)
                => (tasks'[id].status = CANCELLED /\ tasks'[id].started_at = None)]_vars

\* C5: a cancel request on a Completed, Failed or Cancelled task leaves the
\* record as it is and is not reported as a successful cancellation.
C5_TerminalCancelIsNoOp ==
    [][\A id \in DOMAIN tasks :
          (StatusOf(id) \in TerminalStatuses /\ CancelTask(id))
              => /\ tasks'[id] = tasks[id]
                 /\ ~cancel_task(tasks, running_tasks, exec, id, now).ok]_vars

\* The result and error part of C6 in one state.
ResultErrorMatchStatus(tks) ==
    \A id \in DOMAIN tks :
        /\ tks[id].result # None => tks[id].status = COMPLETED
        /\ tks[id].error # None => tks[id].status = FAILED
        /\ ~(tks[id].result # None /\ tks[id].error # None)

\* C6: result is populated only if the status is Completed, error only if it
\* is Failed, never both, neither while Pending or Running, and each is written
\* at most once.
C6_ResultXorError ==
    [][/\ ResultErrorMatchStatus(tasks')
       /\ \A id \in DOMAIN tasks :
            /\ tasks[id].result # None => tasks'[id].result = tasks[id].result
            /\ tasks[id].error # None => tasks'[id].error = tasks[id].error]_vars

\* C7: when the call of the worker for a Running task raises an exception, the
\* task becomes Failed, its error is the exception's description as it is, and
\* the dispatch loop is not touched (the exception stays in the execution).
C7_RaiseBecomesFailed ==
    [][\A id \in DOMAIN tasks : \A e \in Faults :
          (StatusOf(id) = RUNNING /\ WorkerRaises(id, e))
              => /\ tasks'[id].status = FAILED
                 /\ tasks'[id].error = Some(e)
                 /\ tasks'[id].result = None
                 /\ exec'[id] = "done"
                 /\ loop' = loop /\ pending_queue' = pending_queue]_vars

\* A task that was Running ended Failed with the description of the exception,
\* while the dispatch loop still has work.
C7_Witness ==
    \E id \in DOMAIN tasks :
        /\ StatusOf(id) = FAILED
        /\ tasks[id].error = Some("boom")
        /\ tasks[id].result = None
        /\ exec[id] = "done"
        /\ pending_queue # <<>>

\* C8: when the worker ends by returning a failure outcome, the task ends
\* Failed with error populated, never Completed.
C8_ReturnedErrorBecomesFailed ==
    [][\A id \in DOMAIN tasks : \A e \in Faults :
          WorkerReturnsError(id, e)
              => /\ tasks'[id].status = FAILED
                 /\ tasks'[id].error # None]_vars

\* C9: for every id at most one execution is ever launched (so the worker is
\* invoked at most once and never twice at the same time), and an id that has
\* been launched is never in the queue again, whatever its status became.
C9_AtMostOneExecution ==
    \A id \in TaskIds :
        /\ launched[id] <= 1
        /\ launched[id] = 1 <=> exec[id] # "none"
        /\ exec[id] # "none"
              => /\ ~InQueue(id)
                 /\ \A i \in DOMAIN scheduled : scheduled[i] # id

\* A task ended Failed, its one execution is over, and the dispatch loop went
\* on to admit another task.
C9_Witness ==
    \E id \in DOMAIN tasks :
        /\ StatusOf(id) = FAILED /\ exec[id] = "done" /\ launched[id] = 1
        /\ \E other \in DOMAIN tasks : other > id /\ launched[other] = 1

\* The execution of id ends: the worker returns or raises, or the CancelledError
\* ends it.
WorkerTerminates(id) ==
    \/ \E r \in AgentResults : WorkerSucceeds(id, r)
    \/ \E e \in Faults : WorkerReturnsError(id, e)
    \/ \E e \in Faults : WorkerRaises(id, e)
    \/ CancelPropagates(id)

\* What the event loop guarantees: a scheduled coroutine gets its turn, the
\* sleep of the dispatch loop ends, and (the premise of C10) every worker
\* execution terminates. Requests (create, cancel) are under no obligation.
Fairness ==
    /\ WF_vars(PutScheduled)
    /\ WF_vars(TaskProcessorStep)
    /\ WF_vars(TaskProcessorWake)
    /\ \A id \in TaskIds : WF_vars(ExecuteTaskStart(id))
    /\ \A id \in TaskIds : WF_vars(WorkerTerminates(id))

SpecLive == Init /\ [][Next]_vars /\ Fairness

\* C10: with finitely many tasks created, every worker execution terminating
\* and the dispatch loop scheduled fairly, every created task eventually has a
\* terminal status, also the ones put back at the tail at the ceiling.
C10_EveryTaskTerminates ==
    \A id \in TaskIds :
        [](id \in DOMAIN tasks
             => <>(id \in DOMAIN tasks /\ StatusOf(id) \in TerminalStatuses))

\* Every task has been created and is terminal, and one that the dispatch loop
\* had put back at the tail completed after all.
C10_Witness ==
    /\ Len(tasks) = MaxTasks
    /\ \A id \in DOMAIN tasks : StatusOf(id) \in TerminalStatuses /\ exec[id] \in {"none", "done"}
    /\ \E id \in requeued : StatusOf(id) = COMPLETED

\* What the event loop guarantees by itself: a scheduled coroutine gets its
\* turn and the sleep of the dispatch loop ends. Nothing in execute_task or
\* task_processor bounds the time an execution spends in the worker.
DispatchFairness ==
    /\ WF_vars(PutScheduled)
    /\ WF_vars(TaskProcessorStep)
    /\ WF_vars(TaskProcessorWake)
    /\ \A id \in TaskIds : WF_vars(ExecuteTaskStart(id))

\* The service when worker executions are free never to terminate.
SpecHang == Init /\ [][Next]_vars /\ DispatchFairness

\* C11: no task stays Running forever: a task whose worker execution never
\* terminates is eventually taken out of Running by the dispatcher (cancelled
\* and recorded Failed with a timeout error).
C11_NoTaskRunsForever ==
    \A id \in TaskIds :
        []((id \in DOMAIN tasks /\ StatusOf(id) = RUNNING)
             => <>(id \in DOMAIN tasks /\ StatusOf(id) # RUNNING))

\* C12: a worker fault never stops the dispatch loop: once a task's execution
\* raised and the task is recorded Failed, every other id that is in the pending
\* queue is eventually admitted (fair scheduling, the other executions
\* terminating).
C12_FaultNeverStopsLoop ==
    \A other \in TaskIds :
        []((InQueue(other) /\ \E id \in DOMAIN tasks \ {other} : StatusOf(id) = FAILED)
             => <>(launched[other] >= 1))

\* A task failed while the ceiling was reached and another id had been put
\* back at the tail; the dispatch loop then admitted that id into the slot the
\* failure freed (no cancel, and nothing else has ended).
C12_Witness ==
    /\ cancels = 0
    /\ Cardinality(RunningIds) = max_concurrent_tasks
    /\ \E id \in DOMAIN tasks :
        /\ StatusOf(id) = FAILED /\ exec[id] = "done"
        /\ \A t \in DOMAIN tasks \ {id} : StatusOf(t) \in {PENDING, RUNNING}
        /\ \E other \in requeued : StatusOf(other) = RUNNING /\ launched[other] = 1

\* a is an initial part of b.
IsPrefix(a, b) == Len(a) <= Len(b) /\ SubSeq(b, 1, Len(a)) = a

\* C13: across any two successive states the earlier progress sequence of a
\* task is a prefix of the later one: entries are appended at the end and never
\* removed, reordered or modified, whatever the operation.
C13_ProgressPrefixGrows ==
    [][\A id \in DOMAIN tasks :
          IsPrefix(tasks[id].progress, tasks'[id].progress)]_vars

\* A task that is still Running has reported every step of a successful run,
\* one progress report at a time, in the order of the reports.
C13_Witness ==
    \E id \in DOMAIN tasks :
        /\ StatusOf(id) = RUNNING
        /\ tasks[id].progress =
              [i \in 1..(Len(StartSteps) + Len(WorkerSteps)) |->
                  [timestamp |-> 1, step |-> (StartSteps \o WorkerSteps)[i],
                   details |-> NoDetails]]

\* C14: a progress report for a task that is already Completed, Failed or
\* Cancelled appends nothing: the progress log of a terminal task never grows,
\* even when the worker of a cancelled task keeps reporting.
C14_NoGrowthAfterTerminal ==
    [][\A id \in DOMAIN tasks :
          StatusOf(id) \in TerminalStatuses
              => tasks'[id].progress = tasks[id].progress]_vars

\* C15: started_at is unset until the task is set Running and completed_at
\* until it is set to a terminal status, and once either has a value no later
\* admit, complete, fail or cancel changes it.
C15_TimestampsWrittenOnce ==
    [][\A id \in DOMAIN tasks :
          /\ tasks[id].started_at # None
                => tasks'[id].started_at = tasks[id].started_at
          /\ tasks[id].completed_at # None
                => tasks'[id].completed_at = tasks[id].completed_at
          /\ (tasks[id].started_at = None /\ tasks'[id].started_at # None)
                => tasks'[id].status = RUNNING
          /\ (tasks[id].completed_at = None /\ tasks'[id].completed_at # None)
                => tasks'[id].status \in TerminalStatuses]_vars

\* a <= b for two Optional timestamps when both are set.
NotAfter(a, b) == (a # None /\ b # None) => a[1] <= b[1]

\* C16: with a non-decreasing clock every task has created_at <= started_at
\* <= completed_at for whichever of the three are set.
C16_TimestampsOrdered ==
    \A id \in DOMAIN tasks :
        /\ NotAfter(Some(tasks[id].created_at), tasks[id].started_at)
        /\ NotAfter(Some(tasks[id].created_at), tasks[id].completed_at)
        /\ NotAfter(tasks[id].started_at, tasks[id].completed_at)

\* The step calls update_task_status(id, s): through mark_task_running in the
\* dispatch loop, cancel_task, mark_task_completed or mark_task_failed.
TransitionRequest(id, s) ==
    CASE s = RUNNING ->
            /\ TaskProcessorStep
            /\ Head(pending_queue) = id
            /\ ~AtCapacity(running_tasks)
      [] s = CANCELLED -> CancelTask(id)
      [] s = COMPLETED ->
            \/ \E r \in AgentResults : WorkerSucceeds(id, r)
            \/ \E e \in Faults : WorkerReturnsError(id, e)
      [] s = FAILED -> \E e \in Faults : WorkerRaises(id, e)
      [] OTHER -> FALSE

\* C17: a transition request whose edge is not legal from the task's current
\* status is rejected and leaves the record (status, timestamps, result, error)
\* as it is; it is never silently applied.
C17_IllegalRequestRejected ==
    [][\A id \in DOMAIN tasks : \A s \in TaskStatus :
          (TransitionRequest(id, s) /\ <<StatusOf(id), s>> \notin LegalEdges)
              => [tasks'[id] EXCEPT !.progress = tasks[id].progress] = tasks[id]]_vars

\* How many times id occurs in the sequence q.
Occurrences(q, id) == Cardinality({i \in DOMAIN q : q[i] = id})

\* C18: create stores a new record under an id no existing task uses, with
\* status Pending, started_at, completed_at, result and error unset and empty
\* progress, leaves every existing record as it is, and has the id enqueued for
\* dispatch exactly once: the id is in one place only, its scheduled put, the
\* queue, or (once, after its admission) an execution.
C18_CreateStoresFreshPending ==
    [][/\ Len(tasks') > Len(tasks) =>
            LET id == Len(tasks') IN
            /\ Len(tasks') = Len(tasks) + 1
            /\ id \notin DOMAIN tasks
            /\ tasks'[id].id = id
            /\ tasks'[id].status = PENDING
            /\ tasks'[id].created_at = now
            /\ tasks'[id].started_at = None /\ tasks'[id].completed_at = None
            /\ tasks'[id].result = None /\ tasks'[id].error = None
            /\ tasks'[id].progress = <<>>
            /\ \A t \in DOMAIN tasks : tasks'[t] = tasks[t]
            /\ Occurrences(scheduled', id) = 1
            /\ Occurrences(pending_queue', id) = 0 /\ launched'[id] = 0
       /\ \A id \in DOMAIN tasks' :
            Occurrences(scheduled', id) + Occurrences(pending_queue', id)
                + launched'[id] = 1]_vars

\* A task has just been created (its put is scheduled, not yet run) while an
\* earlier task is Running and has reported progress.
C18_Witness ==
    \E id \in DOMAIN tasks : \E old \in DOMAIN tasks :
        /\ old < id
        /\ StatusOf(old) = RUNNING /\ tasks[old].progress # <<>>
        /\ tasks[id] = NewTask(id, 1)
        /\ Occurrences(scheduled, id) = 1

\* C19: the pending queue only ever holds ids of tasks whose status is
\* Pending: a cancel of a Pending task takes its id out of the queue, so the
\* dispatch loop never dequeues or admits a cancelled task.
C19_QueueHoldsOnlyPending ==
    \A i \in DOMAIN pending_queue : StatusOf(pending_queue[i]) = PENDING

\* C20: for every task that reached Completed (execute_command returned and
\* mark_task_completed stored what it returned), GetTaskResult answers with
\* exactly that payload in every later state.
C20_ResultIsWhatWorkerReturned ==
    \A id \in DOMAIN tasks :
        returned[id] # None
            => /\ get_task_result(tasks, id).code = 200
               /\ get_task_result(tasks, id).result = returned[id]

\* C21: GetTaskResult on a Failed task fails with the stored error text, the
\* description the worker raised.
C21_FailedResultCarriesError ==
    \A id \in DOMAIN tasks :
        StatusOf(id) = FAILED
            => /\ get_task_result(tasks, id).code # 200
               /\ Some(get_task_result(tasks, id).detail) = tasks[id].error

\* C22: GetTaskResult on an existing task that is not Completed returns no
\* result payload and fails with the task's current status attached; on an id
\* that was never created it fails with not found.
C22_NoResultUnlessCompleted ==
    \A id \in TaskIds :
        LET r == get_task_result(tasks, id) IN
        /\ id \notin DOMAIN tasks
              => /\ r.code = 404 /\ r.detail = "Task not found"
                 /\ "result" \notin DOMAIN r
        /\ (id \in DOMAIN tasks /\ StatusOf(id) # COMPLETED)
              => /\ r.code = 400
                 /\ r.detail = "Task not completed (status: " \o StatusOf(id) \o ")"
                 /\ "result" \notin DOMAIN r

\* One task holds a stored result but is no longer Completed (it was cancelled
\* afterwards), another is Failed, another Pending, and one id does not exist.
C22_Witness ==
    /\ Len(tasks) < MaxTasks
    /\ \E id \in DOMAIN tasks : StatusOf(id) = CANCELLED /\ tasks[id].result # None
    /\ \E id \in DOMAIN tasks : StatusOf(id) = FAILED
    /\ \E id \in DOMAIN tasks : StatusOf(id) = PENDING

\* The publish calls that have begun: their records.
PublishesOf(kind) ==
    {pubs[p][1] : p \in {q \in Publishers : pubs[q] # None /\ pubs[q][1].kind = kind}}

\* c is in the subscriber set of some task id.
InSomeSubscriberSet(subs, c) == \E k \in DOMAIN subs : c \in subs[k]

\* C23: a publish for a task id attempts delivery to every connection that was
\* subscribed to that id when it began and to no other connection: a
\* connection with no filter or with another id's filter gets nothing
\* task-specific.
C23_PublishReachesSubscribersOnly ==
    /\ \A r \in PublishesOf("task") :
        /\ r.tried \subseteq r.start
        /\ r.status = "returned" => r.tried = r.start
    /\ \A c \in Conns : \A i \in DOMAIN inbox[c] :
        inbox[c][i].type = "task_update"
            => \E r \in PublishesOf("task") : r.message = inbox[c][i] /\ c \in r.start

\* A publish for task 1 has returned after its message reached a subscriber of
\* task 1, while a connection with no filter and a subscriber of task 2 are
\* connected and got nothing.
C23_Witness ==
    /\ \E r \in PublishesOf("task") :
        /\ r.status = "returned" /\ r.message.task_id = 1
        /\ \E c \in r.start : inbox[c] = <<r.message>>
    /\ \E c \in active_connections :
        ~InSomeSubscriberSet(task_subscribers, c) /\ inbox[c] = <<>>
    /\ \E c \in Subscribed(2) : inbox[c] = <<>>

\* C24: when a send fails during a publish for a task id, the publish returns
\* normally all the same, and in every state from its return on the failing
\* connection is in no subscriber set and not in the active set, where a later
\* publish or system-wide broadcast would look for it.
C24_FailedSendDropsConnection ==
    \A r \in PublishesOf("task") :
        /\ r.status # "raised"
        /\ r.status = "returned"
              => \A c \in r.failed :
                    /\ c \notin active_connections
                    /\ ~InSomeSubscriberSet(task_subscribers, c)

\* A publish returned after a send to one subscriber failed and a send to another
\* went through, and a system-wide broadcast made afterwards returned having
\* left the failing connection out.
C24_Witness ==
    \E r \in PublishesOf("task") : \E q \in PublishesOf("all") :
        /\ r.status = "returned" /\ r.failed # {} /\ r.tried \ r.failed # {}
        /\ q.status = "returned" /\ q.tried # {}
        /\ r.failed \cap q.start = {}

\* C25: a system-wide publish attempts delivery to every connection that is
\* connected, filter or no filter: when it has ended, every connection that was
\* active when it began and still is has been sent to.
C25_SystemWideReachesAll ==
    \A r \in PublishesOf("all") :
        r.status \in {"returned", "raised"}
            => (r.start \cap active_connections) \subseteq r.tried

\* C26: disconnect takes the connection out of the active set and of every
\* subscriber set; a second call, or a call for a connection that was never
\* registered, changes nothing.
C26_DisconnectIdempotent ==
    \A c \in Conns :
        LET d1 == disconnect(active_connections, task_subscribers, c)
            d2 == disconnect(d1.active_connections, d1.task_subscribers, c)
        IN  /\ c \notin d1.active_connections
            /\ ~InSomeSubscriberSet(d1.task_subscribers, c)
            /\ d2 = d1
            /\ ws[c] \in {"none", "closed"}
                  => /\ d1.active_connections = active_connections
                     /\ d1.task_subscribers = task_subscribers

\* A publish dropped a failing subscriber and websocket_endpoint then called
\* disconnect for it once more, while another connection is still subscribed
\* and one has not connected yet.
C26_Witness ==
    /\ \E r \in PublishesOf("task") :
        r.status = "returned" /\ \E c \in r.failed : ws[c] = "closed"
    /\ task_subscribers # <<>>
    /\ \E c \in Conns : ws[c] = "none"

\* C27: a publish for a task id nobody is subscribed to, or a system-wide
\* publish when nobody is connected, sends nothing, leaves the connection and
\* subscription sets as they are and returns at once without an error.
C27_PublishToNobodyIsNoOp ==
    [][\A p \in Publishers :
          (pubs[p] = None /\ pubs'[p] # None /\ pubs'[p][1].start = {})
              => /\ pubs'[p][1].status = "returned"
                 /\ pubs'[p][1].tried = {}
                 /\ inbox' = inbox
                 /\ active_connections' = active_connections
                 /\ task_subscribers' = task_subscribers]_vars

\* A publish for a task without subscribers returned with nothing sent while
\* a connection subscribed to another task is connected, and a system-wide
\* publish made when nobody was connected returned with nothing sent.
C27_Witness ==
    /\ \E r \in PublishesOf("task") :
        r.start = {} /\ r.status = "returned" /\ r.tried = {}
    /\ \E r \in PublishesOf("all") :
        r.start = {} /\ r.status = "returned" /\ r.tried = {}
    /\ task_subscribers # <<>>
    /\ \A c \in Conns : inbox[c] = <<>>


\* The message c was sent is in what c received.
Received(c, message) == \E i \in DOMAIN inbox[c] : inbox[c][i] = message

\* The events of update_type about task id that c received.
EventsOf(c, id, update_types) ==
    {inbox[c][i] : i \in {j \in DOMAIN inbox[c] :
        inbox[c][j].task_id = id /\ inbox[c][j].update_type \in update_types}}

\* The publish the execution of id is in or was in last is its task_completed.
PublishesCompleted(ps, id) ==
    /\ ps[ExecSlot(id)] # None
    /\ ps[ExecSlot(id)][1].message.update_type = "task_completed"

\* C28: when the worker of a task returns its result, a task_completed event
\* with that result is published to every connection subscribed to the task
\* at that moment, whenever it subscribed; the publish is never cut short,
\* every one of them that can still be sent to has received the event when the
\* publish is over, and no connection ever receives another task_completed
\* payload for the task.
C28_AllSubscribersGetSameCompleted ==
    /\ [][\A id \in DOMAIN tasks :
            (returned[id] = None /\ returned'[id] # None /\ Subscribed(id) # {}) =>
                /\ PublishesCompleted(pubs', id)
                /\ pubs'[ExecSlot(id)][1].start = Subscribed(id)
                /\ pubs'[ExecSlot(id)][1].message.data = Items(returned'[id][1])]_vars
    /\ [](\A id \in DOMAIN tasks :
            PublishesCompleted(pubs, id) =>
                LET r == pubs[ExecSlot(id)][1] IN
                /\ r.status \in {"sending", "returned"}
                /\ \A c \in r.tried \ r.failed : Received(c, r.message)
                /\ r.status = "returned" =>
                        \A c \in r.start \ r.failed : Received(c, r.message)
                /\ \A c \in Conns : EventsOf(c, id, {"task_completed"}) \subseteq {r.message})

\* One connection subscribed before the task was created (it got task_started)
\* and one after (it did not), and both have the task_completed event.
C28_Witness ==
    \E id \in DOMAIN tasks, c1, c2 \in Conns :
        /\ c1 # c2
        /\ PublishesCompleted(pubs, id)
        /\ pubs[ExecSlot(id)][1].status = "returned"
        /\ EventsOf(c1, id, {"task_started"}) # {}
        /\ EventsOf(c2, id, {"task_started"}) = {}
        /\ EventsOf(c1, id, {"task_completed"}) = {pubs[ExecSlot(id)][1].message}
        /\ EventsOf(c2, id, {"task_completed"}) = {pubs[ExecSlot(id)][1].message}


\* No operation on task id is in progress: its put, its dispatch and its
\* execution are over and no handler is in a publish for it.
Quiescent(id) ==
    /\ Known(id)
    /\ ~InQueue(id)
    /\ exec[id] = "done"
    /\ \A p \in Publishers :
            (pubs[p] # None /\ pubs[p][1].message.task_id = id) => pubs[p][1].status # "sending"

\* The terminal status an event names.
StatusNamed(update_type) ==
    CASE update_type = "task_completed" -> COMPLETED
      [] update_type = "task_failed" -> FAILED
      [] update_type = "task_cancelled" -> CANCELLED

TerminalEvents == {"task_completed", "task_failed", "task_cancelled"}

\* The positions of the terminal events about id in what c received.
TerminalPositions(c, id) ==
    {i \in DOMAIN inbox[c] :
        inbox[c][i].task_id = id /\ inbox[c][i].update_type \in TerminalEvents}

\* The last terminal event about id that c received.
LastTerminalEvent(c, id) ==
    inbox[c][CHOOSE i \in TerminalPositions(c, id) : \A j \in TerminalPositions(c, id) : j <= i]

\* C29: once no operation on a task is in progress, the last terminal event
\* that a subscriber connected since the task was created (it received
\* task_started and is still connected) was sent names the status of the
\* task's record.
C29_EventsAndRegistryConverge ==
    \A id \in DOMAIN tasks, c \in Conns :
        (/\ Quiescent(id)
         /\ ws[c] = "open"
         /\ EventsOf(c, id, {"task_started"}) # {}
         /\ TerminalPositions(c, id) # {})
        => StatusNamed(LastTerminalEvent(c, id).update_type) = StatusOf(id)


\* The tasks the dispatcher has admitted so far.
Admitted == {id \in TaskIds : launched[id] >= 1}

\* No execution has ended and no cancel was asked for.
NothingOver == cancels = 0 /\ \A id \in TaskIds : exec[id] # "done"

\* C30: the k-th admission, for k up to the ceiling, is of the k-th task
\* created (task ids are numbered in creation order); and once the dispatcher
\* has met the ceiling and put an id back, as long as no execution has ended
\* and no cancel was asked for, exactly max_concurrent_tasks tasks are Running
\* and every other task is Pending.
C30_FifoUntilCeiling ==
    /\ [][\A id \in TaskIds :
            (launched'[id] > launched[id] /\ Cardinality(Admitted) < max_concurrent_tasks)
                => id = Cardinality(Admitted) + 1]_vars
    /\ []((requeued # {} /\ NothingOver) =>
            /\ Cardinality(RunningIds) = max_concurrent_tasks
            /\ RunningIds = 1..max_concurrent_tasks
            /\ \A id \in DOMAIN tasks \ RunningIds : StatusOf(id) = PENDING)

\* More tasks than the ceiling were created, the dispatcher met the ceiling:
\* the first max_concurrent_tasks are Running and the last one waits.
C30_Witness ==
    /\ Len(tasks) > max_concurrent_tasks
    /\ requeued # {}
    /\ NothingOver
    /\ Admitted = 1..max_concurrent_tasks
    /\ StatusOf(Len(tasks)) = PENDING
    /\ InQueue(Len(tasks))


\* C31: a task id is a key of running_tasks exactly when the task's status is
\* Running, so the "running_tasks" count of get_queue_stats is the number of
\* tasks whose status is Running.
C31_InFlightIffRunning ==
    /\ \A id \in TaskIds :
            id \in running_tasks <=> (id \in DOMAIN tasks /\ StatusOf(id) = RUNNING)
    /\ RunningCount(running_tasks) = Cardinality(RunningIds)

\* One task is Running while another one, admitted before, was cancelled and
\* a third one has ended.
C31_Witness ==
    /\ running_tasks # {}
    /\ \E id \in DOMAIN tasks : launched[id] >= 1 /\ StatusOf(id) = CANCELLED
    /\ \E id \in DOMAIN tasks : StatusOf(id) \in {COMPLETED, FAILED}


LiveExecutions == {id \in TaskIds : exec[id] \in {"running", "cancelling"}}

\* C33: at most max_concurrent_tasks worker executions have started and not
\* yet stopped, also when Running tasks are cancelled.
C33_LiveExecutionsWithinCeiling == Cardinality(LiveExecutions) <= max_concurrent_tasks


\* C34: every task whose status is Pending is accounted for exactly once:
\* its id is either among the puts that create_task scheduled or in the
\* pending queue, once. (The dispatch loop never holds an id across a
\* suspension: between the dequeue and the put back or the admission it does
\* not await anything that suspends.) This also holds around an iteration of
\* the loop that raises and is logged.
C34_PendingAccountedOnce ==
    \A id \in DOMAIN tasks :
        StatusOf(id) = PENDING => Occurrences(scheduled, id) + Occurrences(pending_queue, id) = 1

\* The loop is in the sleep of its except branch while a Pending id that it
\* had put back before waits in the queue behind another Pending id.
C34_Witness ==
    /\ loop = "backoff"
    /\ Len(pending_queue) >= 2
    /\ \A i \in DOMAIN pending_queue : StatusOf(pending_queue[i]) = PENDING
    /\ pending_queue[Len(pending_queue)] \in requeued


\* The task_completed publish of the execution of id has a send that failed.
CompletedPublishFaulted(ps, id) ==
    /\ PublishesCompleted(ps, id)
    /\ ps[ExecSlot(id)][1].failed # {}

\* C35: a send that fails in the publish of a task's task_completed event
\* leaves the record as mark_task_completed wrote it. In the step in which
\* the execution records the result and goes into the publish, whose first
\* send may fail, the task is Completed with the worker's result and no
\* error; every later step of that publish, failing sends and the clean-up
\* included, changes no task record.
C35_PublishFaultKeepsRecord ==
    [][\A id \in DOMAIN tasks :
        (CompletedPublishFaulted(pubs', id) /\ pubs'[ExecSlot(id)] # pubs[ExecSlot(id)]) =>
            IF returned'[id] # returned[id]
            THEN /\ tasks'[id].status = COMPLETED
                 /\ tasks'[id].error = None
                 /\ tasks'[id].result = returned'[id]
            ELSE tasks' = tasks]_vars

\* The publish of task_completed is over, its send failed and the connection
\* was dropped; the task is Completed with its result and without an error.
C35_Witness ==
    \E id \in DOMAIN tasks :
        /\ CompletedPublishFaulted(pubs, id)
        /\ pubs[ExecSlot(id)][1].status = "returned"
        /\ pubs[ExecSlot(id)][1].failed \cap active_connections = {}
        /\ StatusOf(id) = COMPLETED
        /\ tasks[id].error = None
        /\ tasks[id].result = returned[id]


\* C36: a connect or a disconnect while a system-wide broadcast is suspended
\* in a send never makes send_to_all raise towards its caller, and when the
\* broadcast has returned every connection that was connected from its start
\* to its end has been sent the message.
C36_BroadcastSurvivesChurn ==
    \A r \in PublishesOf("all") :
        /\ r.status # "raised"
        /\ r.status = "returned" => (r.start \cap active_connections) \subseteq r.tried


\* The "step" entry of the data of an agent_step event.
StepOf(message) == (CHOOSE kv \in message.data : kv[1] = "step")[2]

\* The events of the given types about task id in what c received, in the
\* order of their arrival.
EventSeq(c, id, update_types) ==
    LET Wanted(m) == m.task_id = id /\ m.update_type \in update_types
    IN  SelectSeq(inbox[c], Wanted)

\* The steps of the agent_step events about id that c received, in order.
StepsSent(c, id) ==
    LET evs == EventSeq(c, id, {"agent_step"})
    IN  [i \in 1..Len(evs) |-> StepOf(evs[i])]

\* The steps of the task's progress log, in order.
StepsLogged(id) == [i \in 1..Len(tasks[id].progress) |-> tasks[id].progress[i].step]

\* c has been subscribed to id since the task was created (it was sent
\* task_started) and is still connected.
SubscribedThroughout(c, id) ==
    /\ ws[c] = "open"
    /\ c \in Subscribed(id)
    /\ EventsOf(c, id, {"task_started"}) # {}

C38_FailedSendSparesOthers ==
    /\ [](\A r \in PublishesOf("task") :
            r.status = "returned" =>
                /\ r.failed \subseteq r.start
                /\ \A c \in r.start \ r.failed : Received(c, r.message))
    /\ [][\A p \in Publishers :
            (/\ pubs[p] # None /\ pubs'[p] # None
             /\ pubs[p][1].kind = "task"
             /\ pubs[p][1].status = "sending" /\ pubs'[p][1].status = "returned")
            => /\ active_connections' = active_connections \ pubs[p][1].failed
               /\ \A c \in Conns \ pubs[p][1].failed : \A id \in TaskIds :
                      c \in Recipients(active_connections', task_subscribers', id)
                         <=> c \in Recipients(active_connections, task_subscribers, id)
               /\ \A c \in pubs[p][1].failed : ~InSomeSubscriberSet(task_subscribers', c)]_vars

\* A publish to two subscribers has returned: the send to one failed and it
\* was removed, the other one has the message and is still subscribed.
C38_Witness ==
    \E r \in PublishesOf("task") : \E c, d \in r.start :
        /\ r.status = "returned"
        /\ c \in r.failed /\ c \notin active_connections
        /\ d \notin r.failed /\ Received(d, r.message)
        /\ d \in Subscribed(r.message.task_id)


\* C39: every connection in the subscriber set of some task id is in
\* active_connections, and no task id is a key of task_subscribers with an
\* empty set.
C39_SubscribersAreActive ==
    /\ \A k \in DOMAIN task_subscribers :
            /\ task_subscribers[k] # {}
            /\ task_subscribers[k] \subseteq active_connections
    /\ \A c \in Conns : InSomeSubscriberSet(task_subscribers, c) => c \in active_connections

\* The only subscriber of a task id was dropped by a publish whose send to it
\* failed and its endpoint has disconnected since: the id is no key any more,
\* while another id still has a subscriber.
C39_Witness ==
    \E r \in PublishesOf("task") : \E c \in r.failed :
        /\ r.status = "returned"
        /\ r.start = {c}
        /\ ws[c] = "closed"
        /\ r.message.task_id \notin DOMAIN task_subscribers
        /\ DOMAIN task_subscribers # {}

====
